---- MODULE Spec2Model ----
(***************************************************************************)
(* Model of merge-pdfs.js of doc-consolidator: the folder-scoped PDF       *)
(* consolidation pipeline (scanFolders, getValidPDFs, generateFileName,    *)
(* mergePDFs and main).                                                    *)
(*                                                                         *)
(* Strings are sequences of one-character strings, so that split, sort,    *)
(* endsWith, toLowerCase and padStart are computed, not assumed.           *)
(* The file system is a function from absolute paths (sequences of entry   *)
(* names below the source directory) to directories; a directory is a      *)
(* readable flag and a set of entries.  readdir returns the entries in an  *)
(* order the file system chooses.                                          *)
(***************************************************************************)
EXTENDS Integers, Sequences, FiniteSets, TLC

VARIABLES
  tree,            \* the file system below the source directory
  pc,              \* position of main: "mkdir", "scan", "loop", "merge", "stat", "done"
  folders,         \* main: the array returned by scanFolders
  i,               \* main: the loop index (0-based, as in the code)
  outputFileName,  \* main: the name generated for folders[i]
  pdfFiles,        \* main: the array returned by getValidPDFs
  success,         \* main: the value returned by the last call of mergePDFs
  processedCount,  \* main: counter
  successCount,    \* main: counter
  exitCode,        \* -1 while running, 0 when main returned, 1 after process.exit(1)
  outputNames,     \* console: the "Output:" line of each iteration
  outcomes,        \* console: the closing line of each iteration
  readFailed,      \* console: whether getValidPDFs logged "Error reading folder"
  mergeError,      \* console: the operation whose error mergePDFs logged, or "none"
  summary,         \* console: <<Folders processed, Successful merges>> once printed
  previousRun,     \* console of the run before this one on the same tree: <<>> when
                   \* there was none, else <<[folders, outputNames]>>
  calls            \* the calls made of a function run on its own: each a record of
                   \* the arguments and the value returned

vars == <<tree, pc, folders, i, outputFileName, pdfFiles, success,
          processedCount, successCount, exitCode, outputNames, outcomes, readFailed, mergeError, summary,
          previousRun, calls>>

(***************************************************************************)
(* Bounds of the model.                                                    *)
(***************************************************************************)
MaxDirs == 2

MaxFiles == 3

MaxPages == 2

\* the largest index generateFileName is called with on its own
MaxIndex == 100

\* longest segment handed to cleanFolderName on its own
MaxSegLen == 4

(***************************************************************************)
(* Characters and strings.                                                 *)
(***************************************************************************)
CharTable ==
  <<" ", "!", "DQUOTE", "#", "$", "%", "&", "'", "(", ")", "*", "+", ",", "-", ".", "/",
    "0", "1", "2", "3", "4", "5", "6", "7", "8", "9", ":", ";", "<", "=", ">", "?",
    "@", "A", "B", "C", "D", "E", "F", "G", "H", "I", "J", "K", "L", "M", "N", "O",
    "P", "Q", "R", "S", "T", "U", "V", "W", "X", "Y", "Z", "[", "BSLASH", "]", "^", "_",
    "BTICK", "a", "b", "c", "d", "e", "f", "g", "h", "i", "j", "k", "l", "m", "n", "o",
    "p", "q", "r", "s", "t", "u", "v", "w", "x", "y", "z", "{", "|", "}", "~">>

EmojiChars == {"U+1F600", "U+2600"}

\* UTF-16 code unit a character starts with (what Array.prototype.sort and
\* String comparison look at first).
CodeUnit ==
  [c \in {CharTable[k] : k \in 1..Len(CharTable)} \cup EmojiChars |->
     IF c = "U+1F600" THEN 55357
     ELSE IF c = "U+2600" THEN 9728
     ELSE 31 + (CHOOSE k \in 1..Len(CharTable) : CharTable[k] = c)]

Code(c) == CodeUnit[c]

IsUpper(c) == Code(c) >= 65 /\ Code(c) <= 90

IsLower(c) == Code(c) >= 97 /\ Code(c) <= 122

IsDigit(c) == Code(c) >= 48 /\ Code(c) <= 57

\* \w of a JavaScript regular expression
IsWord(c) == IsUpper(c) \/ IsLower(c) \/ IsDigit(c) \/ c = "_"

\* \s of a JavaScript regular expression (the space is the only one modelled)
IsSpace(c) == c = " "

IsHex(c) == IsDigit(c) \/ (Code(c) >= 97 /\ Code(c) <= 102) \/ (Code(c) >= 65 /\ Code(c) <= 70)

IsEmoji(c) == c \in EmojiChars

LowerChar(c) == IF IsUpper(c) THEN CharTable[Code(c) + 32 - 31] ELSE c

toLowerCase(s) == [k \in 1..Len(s) |-> LowerChar(s[k])]

endsWith(s, suffix) ==
  /\ Len(s) >= Len(suffix)
  /\ SubSeq(s, Len(s) - Len(suffix) + 1, Len(s)) = suffix

DotPdf == <<".", "p", "d", "f">>

\* item.name.toLowerCase().endsWith('.pdf')
HasPdfExt(name) == endsWith(toLowerCase(name), DotPdf)

\* s < t for JavaScript strings: by code units, a proper prefix first
StrLess(s, t) ==
  \/ /\ Len(s) < Len(t)
     /\ SubSeq(t, 1, Len(s)) = s
  \/ \E k \in 1..Len(s) :
       /\ k <= Len(t)
       /\ SubSeq(s, 1, k - 1) = SubSeq(t, 1, k - 1)
       /\ Code(s[k]) < Code(t[k])

\* Collation of String.prototype.localeCompare (root collation): characters
\* differ first by their primary weight (punctuation, then digits, then
\* letters without regard to case), then lower case before upper case.
Primary(c) ==
  IF IsLower(c) THEN 1000 + Code(c)
  ELSE IF IsUpper(c) THEN 1000 + Code(c) + 32
  ELSE IF IsDigit(c) THEN 500 + Code(c)
  ELSE IF c = "_" THEN 1
  ELSE IF c = "-" THEN 2
  ELSE IF c = "." THEN 3
  ELSE 10 + Code(c)

Tertiary(c) == IF IsUpper(c) THEN 1 ELSE 0

RECURSIVE LexLess(_, _)
\* lexicographic order of two sequences of numbers
LexLess(a, b) ==
  IF b = <<>> THEN FALSE
  ELSE IF a = <<>> THEN TRUE
  ELSE IF Head(a) # Head(b) THEN Head(a) < Head(b)
  ELSE LexLess(Tail(a), Tail(b))

\* a.localeCompare(b): -1, 0 or 1
localeCompare(a, b) ==
  LET pa == [k \in 1..Len(a) |-> Primary(a[k])]
      pb == [k \in 1..Len(b) |-> Primary(b[k])]
      ta == [k \in 1..Len(a) |-> Tertiary(a[k])]
      tb == [k \in 1..Len(b) |-> Tertiary(b[k])]
  IN  IF LexLess(pa, pb) THEN -1
      ELSE IF LexLess(pb, pa) THEN 1
      ELSE IF LexLess(ta, tb) THEN -1
      ELSE IF LexLess(tb, ta) THEN 1
      ELSE 0

RECURSIVE DecStr(_)
\* String(n) for a natural number
DecStr(n) ==
  IF n < 10 THEN <<CharTable[17 + n]>>
  ELSE DecStr(n \div 10) \o <<CharTable[17 + (n % 10)]>>

RECURSIVE padStart(_, _, _)
padStart(s, width, c) == IF Len(s) >= width THEN s ELSE padStart(<<c>> \o s, width, c)

RECURSIVE split(_, _)
\* s.split(sep) for a one-character separator
split(s, sep) ==
  IF \E k \in 1..Len(s) : s[k] = sep
  THEN LET k == CHOOSE k \in 1..Len(s) : s[k] = sep /\ \A j \in 1..(k - 1) : s[j] # sep
       IN  <<SubSeq(s, 1, k - 1)>> \o split(SubSeq(s, k + 1, Len(s)), sep)
  ELSE <<s>>

RECURSIVE FilterSeq(_, _)
FilterSeq(s, drop) ==
  IF s = <<>> THEN <<>>
  ELSE IF Head(s) = drop THEN FilterSeq(Tail(s), drop)
  ELSE <<Head(s)>> \o FilterSeq(Tail(s), drop)

(***************************************************************************)
(* Program constants.                                                      *)
(***************************************************************************)
MIN_FILE_SIZE == 20 * 1024

OUTPUT_DIR == <<"o", "u", "t", "p", "u", "t">>

\* length of the hash key cleanFolderName removes
HashLen == 32

(***************************************************************************)
(* cleanFolderName and generateFileName.                                   *)
(***************************************************************************)
\* folderName.replace(/\s+[a-f0-9]{32}$/i, ''): the match ends at the end of
\* the string and starts at the leftmost character of the whitespace run
\* that precedes the last 32 characters.
StripHash(s) ==
  LET n == Len(s)
  IN  IF /\ n >= HashLen + 1
         /\ \A k \in (n - HashLen + 1)..n : IsHex(s[k])
         /\ IsSpace(s[n - HashLen])
      THEN LET start == CHOOSE k \in 1..(n - HashLen) :
                          /\ \A j \in k..(n - HashLen) : IsSpace(s[j])
                          /\ (k = 1 \/ ~IsSpace(s[k - 1]))
           IN  SubSeq(s, 1, start - 1)
      ELSE s

\* the character class the second replace keeps: \w, \s and the emoji ranges
KeptChar(c) == IsWord(c) \/ IsSpace(c) \/ IsEmoji(c)

RECURSIVE CollapseSpaces(_)
\* .replace(/\s+/g, '_')
CollapseSpaces(s) ==
  IF s = <<>> THEN <<>>
  ELSE IF IsSpace(Head(s))
       THEN IF Len(s) >= 2 /\ IsSpace(s[2])
            THEN CollapseSpaces(Tail(s))
            ELSE <<"_">> \o CollapseSpaces(Tail(s))
       ELSE <<Head(s)>> \o CollapseSpaces(Tail(s))

RECURSIVE trim(_)
\* String.prototype.trim
trim(s) ==
  IF s = <<>> THEN s
  ELSE IF IsSpace(Head(s)) THEN trim(Tail(s))
  ELSE IF IsSpace(s[Len(s)]) THEN trim(SubSeq(s, 1, Len(s) - 1))
  ELSE s

cleanFolderName(folderName) ==
  LET cleaned == StripHash(folderName)
  IN  trim(CollapseSpaces(SelectSeq(cleaned, KeptChar)))

\* the index without padStart
unpaddedIndex(index) == DecStr(index)

paddedIndex(index) == padStart(DecStr(index), 2, "0")

generateFileName(folderPath, index) ==
  LET parts == FilterSeq(split(folderPath, "/"), <<".">>)
      cleanedParts == [k \in 1..Len(parts) |-> cleanFolderName(parts[k])]
  IN  IF Len(cleanedParts) = 0
      THEN paddedIndex(index) \o <<"-", "R", "o", "o", "t">> \o DotPdf
      ELSE IF Len(cleanedParts) = 1
      THEN paddedIndex(index) \o <<"-">> \o cleanedParts[1] \o DotPdf
      ELSE LET parent == cleanedParts[Len(cleanedParts) - 1]
               child == cleanedParts[Len(cleanedParts)]
           IN  paddedIndex(index) \o <<"-">> \o parent \o <<"-">> \o child \o DotPdf

(***************************************************************************)
(* The file system.  tree[p] is the directory at path p below the source   *)
(* directory (p is a sequence of entry names, <<>> the source directory).  *)
(* An entry is a record                                                    *)
(*   name    the entry's name                                              *)
(*   type    "file", "dir" or "symlink" (what the Dirent reports)          *)
(*   size    size in bytes                                                 *)
(*   statOK  whether fs.stat of the entry succeeds                         *)
(*   loadOK  whether fs.readFile and PDFDocument.load/copyPages succeed    *)
(*   pages   the pages of the document, each page a pair <<file, number>>  *)
(*   origin  "source" for an input, "copy", "merged" or "partial" for a    *)
(*           file written by mergePDFs                                     *)
(***************************************************************************)
RootRel == <<".">>

SourceDir == <<>>

outputDir == <<OUTPUT_DIR>>

PagesOf(name, n) == [k \in 1..n |-> <<name, k>>]

SrcFile(name, type, size, statOK, loadOK, n) ==
  [name |-> name, type |-> type, size |-> size, statOK |-> statOK,
   loadOK |-> loadOK, pages |-> PagesOf(name, n), origin |-> "source"]

DirEntry(name) ==
  [name |-> name, type |-> "dir", size |-> 0, statOK |-> TRUE,
   loadOK |-> FALSE, pages |-> <<>>, origin |-> "source"]

\* path.join(sourceDir, folderPath), with '.' standing for sourceDir itself
Resolve(folderPath) ==
  IF folderPath = RootRel THEN SourceDir ELSE split(folderPath, "/")

HasEntry(t, dir, name) == dir \in DOMAIN t /\ \E e \in t[dir].entries : e.name = name

EntryAt(t, dir, name) == CHOOSE e \in t[dir].entries : e.name = name

RECURSIVE Orders(_)
\* the orders in which fs.readdir may return the entries of a directory
Orders(S) ==
  IF S = {} THEN {<<>>}
  ELSE UNION {{<<e>> \o rest : rest \in Orders(S \ {e})} : e \in S}

(***************************************************************************)
(* scanFolders.                                                            *)
(***************************************************************************)
RECURSIVE InsertSorted(_, _)
InsertSorted(sorted, x) ==
  IF sorted = <<>> THEN <<x>>
  ELSE IF StrLess(x, Head(sorted)) THEN <<x>> \o sorted
  ELSE <<Head(sorted)>> \o InsertSorted(Tail(sorted), x)

RECURSIVE sort(_)
\* Array.prototype.sort() without a comparator, on an array of strings
sort(arr) ==
  IF arr = <<>> THEN <<>>
  ELSE InsertSorted(sort(SubSeq(arr, 1, Len(arr) - 1)), arr[Len(arr)])

\* the test without item.isFile()
hasDirectPDFsAnyType(items) ==
  \E item \in items : HasPdfExt(item.name)

hasDirectPDFs(items) ==
  \E item \in items : item.type = "file" /\ HasPdfExt(item.name)

subRelative(relativePath, name) ==
  IF relativePath = RootRel THEN name ELSE relativePath \o <<"/">> \o name

RECURSIVE scan(_, _, _)
RECURSIVE scanSubfolders(_, _, _, _)
\* The sequences of relative paths scan may push to folders, one sequence
\* for each order in which readdir lists the subdirectories.
scan(t, currentPath, relativePath) ==
  IF ~t[currentPath].readable THEN {<<>>}
  ELSE LET items == t[currentPath].entries
           own == IF hasDirectPDFs(items) THEN <<relativePath>> ELSE <<>>
           dirs == {item \in items : item.type = "dir"}
       IN  {own \o below : below \in scanSubfolders(t, currentPath, relativePath, dirs)}

scanSubfolders(t, currentPath, relativePath, dirs) ==
  IF dirs = {} THEN {<<>>}
  ELSE UNION {{first \o rest :
                 first \in scan(t, Append(currentPath, d.name), subRelative(relativePath, d.name)),
                 rest \in scanSubfolders(t, currentPath, relativePath, dirs \ {d})} :
              d \in dirs}

\* the values scanFolders(sourceDir) may return
scanFolders(t) == {sort(pushed) : pushed \in scan(t, SourceDir, RootRel)}

(***************************************************************************)
(* getValidPDFs.                                                           *)
(***************************************************************************)
RECURSIVE InsertByName(_, _)
\* stable insertion by (a, b) => a.name.localeCompare(b.name)
InsertByName(sorted, x) ==
  IF sorted = <<>> THEN <<x>>
  ELSE IF localeCompare(x.name, Head(sorted).name) < 0 THEN <<x>> \o sorted
  ELSE <<Head(sorted)>> \o InsertByName(Tail(sorted), x)

RECURSIVE sortByName(_)
sortByName(arr) ==
  IF arr = <<>> THEN <<>>
  ELSE InsertByName(sortByName(SubSeq(arr, 1, Len(arr) - 1)), arr[Len(arr)])

\* the test without the comparison with MIN_FILE_SIZE
IsValidPDFAnySize(item) ==
  /\ item.type = "file"
  /\ HasPdfExt(item.name)
  /\ item.statOK

\* the test with > in place of >=
IsValidPDFAbove(item) ==
  /\ item.type = "file"
  /\ HasPdfExt(item.name)
  /\ item.statOK
  /\ item.size > MIN_FILE_SIZE

\* the test of one item in the loop of getValidPDFs
IsValidPDF(item) ==
  /\ item.type = "file"
  /\ HasPdfExt(item.name)
  /\ item.statOK
  /\ item.size >= MIN_FILE_SIZE

RECURSIVE validPDFs(_, _)
\* the array validPDFs after the loop over items, before the sort
validPDFs(folderPath, items) ==
  IF items = <<>> THEN <<>>
  ELSE LET item == Head(items)
           rest == validPDFs(folderPath, Tail(items))
       IN  IF IsValidPDF(item)
           THEN <<[name |-> item.name, path |-> Append(folderPath, item.name),
                   size |-> item.size]>> \o rest
           ELSE rest

\* the values getValidPDFs(folderPath) may return; readOK is whether
\* fs.readdir(folderPath) succeeds
getValidPDFs(t, folderPath, readOK) ==
  IF ~readOK \/ folderPath \notin DOMAIN t \/ ~t[folderPath].readable THEN {<<>>}
  ELSE {sortByName(validPDFs(folderPath, items)) : items \in Orders(t[folderPath].entries)}

(***************************************************************************)
(* mergePDFs.                                                              *)
(***************************************************************************)
\* the page PDFDocument.save() adds to a document that has none
BlankPage == <<<<>>, 0>>

\* the directory t[dir] with entry e written, replacing an entry of that name
WriteEntry(t, dir, e) ==
  [t EXCEPT ![dir].entries = {x \in @ : x.name # e.name} \cup {e}]

RECURSIVE importedUntilFailure(_, _)
\* the loop with break in place of continue
importedUntilFailure(t, files) ==
  IF files = <<>> THEN <<>>
  ELSE LET pdfFile == Head(files)
           dir == SubSeq(pdfFile.path, 1, Len(pdfFile.path) - 1)
           pdf == EntryAt(t, dir, pdfFile.name)
       IN  IF HasEntry(t, dir, pdfFile.name) /\ pdf.loadOK
           THEN <<pdf>> \o importedUntilFailure(t, Tail(files))
           ELSE <<>>

RECURSIVE imported(_, _)
\* the documents the loop over pdfFiles adds to mergedPdf, in order: a file
\* whose read, load or copyPages throws adds nothing and the loop continues
imported(t, files) ==
  IF files = <<>> THEN <<>>
  ELSE LET pdfFile == Head(files)
           dir == SubSeq(pdfFile.path, 1, Len(pdfFile.path) - 1)
           pdf == EntryAt(t, dir, pdfFile.name)
       IN  IF HasEntry(t, dir, pdfFile.name) /\ pdf.loadOK
           THEN <<pdf>> \o imported(t, Tail(files))
           ELSE imported(t, Tail(files))

RECURSIVE importPages(_)
\* the pages of mergedPdf after the loop
importPages(docs) ==
  IF docs = <<>> THEN <<>> ELSE Head(docs).pages \o importPages(Tail(docs))

RECURSIVE importSize(_)
\* size of the saved document, taken as the sum of the sizes of its parts
importSize(docs) ==
  IF docs = <<>> THEN 0 ELSE Head(docs).size + importSize(Tail(docs))

\* Outcomes of the file operations of one call of mergePDFs:
\*   copy   fs.copyFile: "ok", or "error" (the destination is removed)
\*   save   whether mergedPdf.save() returns
\*   write  fs.writeFile: "ok", "error" (thrown before the file is opened)
\*          or "partial" (thrown after it was opened with flag 'w')
IOOutcomes == [copy : {"ok", "error"}, save : BOOLEAN, write : {"ok", "error", "partial"}]

\* the result of mergePDFs(pdfFiles, outputPath): the value returned, the
\* file system it leaves and the operation whose error it logged
mergePDFs(t, files, outputPath, io) ==
  LET dir == SubSeq(outputPath, 1, Len(outputPath) - 1)
      name == outputPath[Len(outputPath)]
  IN  IF Len(files) = 0 THEN [success |-> FALSE, tree |-> t, error |-> "none"]
      ELSE IF Len(files) = 1
      THEN LET srcDir == SubSeq(files[1].path, 1, Len(files[1].path) - 1)
               src == EntryAt(t, srcDir, files[1].name)
           IN  IF io.copy = "ok" /\ HasEntry(t, srcDir, files[1].name)
               THEN [success |-> TRUE,
                     tree |-> WriteEntry(t, dir, [src EXCEPT !.name = name, !.origin = "copy"]),
                     error |-> "none"]
               ELSE [success |-> FALSE, tree |-> t, error |-> "copy"]
      ELSE LET docs == imported(t, files)
               saved == IF importPages(docs) = <<>> THEN <<BlankPage>> ELSE importPages(docs)
               bytes == [name |-> name, type |-> "file", size |-> importSize(docs),
                         statOK |-> TRUE, loadOK |-> TRUE, pages |-> saved, origin |-> "merged"]
           IN  IF ~io.save THEN [success |-> FALSE, tree |-> t, error |-> "save"]
               ELSE IF io.write = "ok"
               THEN [success |-> TRUE, tree |-> WriteEntry(t, dir, bytes), error |-> "none"]
               ELSE IF io.write = "partial"
               THEN [success |-> FALSE,
                     tree |-> WriteEntry(t, dir, [bytes EXCEPT !.size = 0, !.loadOK = FALSE,
                                                               !.pages = <<>>, !.origin = "partial"]),
                     error |-> "write"]
               ELSE [success |-> FALSE, tree |-> t, error |-> "write"]

(***************************************************************************)
(* main.                                                                   *)
(***************************************************************************)
Fatal ==
  /\ exitCode' = 1
  /\ pc' = "done"

\* line 179, fs.mkdir(outputDir, {recursive: true}) succeeds
MkdirOutput ==
  /\ pc = "mkdir"
  /\ tree' = IF outputDir \in DOMAIN tree THEN tree
             ELSE [p \in DOMAIN tree \cup {outputDir} |->
                     IF p = outputDir THEN [readable |-> TRUE, entries |-> {}]
                     ELSE IF p = SourceDir
                     THEN [tree[p] EXCEPT !.entries = @ \cup {DirEntry(OUTPUT_DIR)}]
                     ELSE tree[p]]
  /\ pc' = "scan"
  /\ UNCHANGED <<folders, i, outputFileName, pdfFiles, success, processedCount,
                 successCount, exitCode, outputNames, outcomes, readFailed, mergeError,
                 summary>>
  /\ UNCHANGED <<previousRun, calls>>

\* line 179 throws: the catch of main exits with code 1
MkdirFails ==
  /\ pc = "mkdir"
  /\ Fatal
  /\ UNCHANGED <<tree, folders, i, outputFileName, pdfFiles, success, processedCount,
                 successCount, outputNames, outcomes, readFailed, mergeError, summary>>
  /\ UNCHANGED <<previousRun, calls>>

\* lines 183-190
Scan ==
  /\ pc = "scan"
  /\ \E found \in scanFolders(tree) : folders' = found
  /\ processedCount' = 0
  /\ successCount' = 0
  /\ i' = 0
  /\ pc' = "loop"
  /\ UNCHANGED <<tree, outputFileName, pdfFiles, success, exitCode, outputNames,
                 outcomes, readFailed, mergeError, summary>>
  /\ UNCHANGED <<previousRun, calls>>

\* lines 190-202 of one iteration, and lines 211-215 when no file is valid;
\* index is the number passed to generateFileName
FilterStep(index) ==
  /\ pc = "loop"
  /\ i < Len(folders)
  /\ LET folderPath == folders[i + 1]
         fullFolderPath == Resolve(folderPath)
     IN  /\ outputFileName' = generateFileName(folderPath, index)
         /\ outputNames' = Append(outputNames, outputFileName')
         /\ \E readOK \in BOOLEAN :
              /\ readFailed' = ~readOK
              /\ \E valid \in getValidPDFs(tree, fullFolderPath, readOK) : pdfFiles' = valid
  /\ IF Len(pdfFiles') > 0
     THEN /\ pc' = "merge"
          /\ UNCHANGED <<i, processedCount, outcomes>>
     ELSE /\ outcomes' = Append(outcomes, "empty")
          /\ processedCount' = processedCount + 1
          /\ i' = i + 1
          /\ pc' = "loop"
  /\ UNCHANGED <<tree, folders, success, successCount, exitCode, mergeError, summary>>
  /\ UNCHANGED <<previousRun, calls>>

\* the index counts the successful merges instead of the position
FilterBySuccessCount == FilterStep(successCount + 1)

Filter == FilterStep(i + 1)

\* lines 203-205 and 208-210, 215: the call of mergePDFs and its else branch
Merge ==
  /\ pc = "merge"
  /\ \E io \in IOOutcomes :
       LET r == mergePDFs(tree, pdfFiles, Append(outputDir, outputFileName), io)
       IN  /\ tree' = r.tree
           /\ success' = r.success
           /\ mergeError' = r.error
  /\ IF success'
     THEN /\ successCount' = successCount + 1
          /\ pc' = "stat"
          /\ UNCHANGED <<i, processedCount, outcomes>>
     ELSE /\ outcomes' = Append(outcomes, "failed")
          /\ processedCount' = processedCount + 1
          /\ i' = i + 1
          /\ pc' = "loop"
          /\ UNCHANGED successCount
  /\ UNCHANGED <<folders, outputFileName, pdfFiles, exitCode, outputNames, readFailed,
                 summary>>
  /\ UNCHANGED <<previousRun, calls>>

\* lines 206-207, 215: fs.stat(outputPath) succeeds
StatOutput ==
  /\ pc = "stat"
  /\ outcomes' = Append(outcomes, "success")
  /\ processedCount' = processedCount + 1
  /\ i' = i + 1
  /\ pc' = "loop"
  /\ UNCHANGED <<tree, folders, outputFileName, pdfFiles, success, successCount,
                 exitCode, outputNames, readFailed, mergeError, summary>>
  /\ UNCHANGED <<previousRun, calls>>

\* line 206 throws: nothing inside the loop catches it, the catch of main
\* exits with code 1
StatFails ==
  /\ pc = "stat"
  /\ Fatal
  /\ UNCHANGED <<tree, folders, i, outputFileName, pdfFiles, success, processedCount,
                 successCount, outputNames, outcomes, readFailed, mergeError, summary>>
  /\ UNCHANGED <<previousRun, calls>>

\* lines 218-229: the summary, then fs.readdir(outputDir) succeeds
Summary ==
  /\ pc = "loop"
  /\ i >= Len(folders)
  /\ summary' = <<processedCount, successCount>>
  /\ exitCode' = 0
  /\ pc' = "done"
  /\ UNCHANGED <<tree, folders, i, outputFileName, pdfFiles, success, processedCount,
                 successCount, outputNames, outcomes, readFailed, mergeError>>
  /\ UNCHANGED <<previousRun, calls>>

\* lines 218-225: the summary is printed, then fs.readdir(outputDir) throws
ListFails ==
  /\ pc = "loop"
  /\ i >= Len(folders)
  /\ summary' = <<processedCount, successCount>>
  /\ Fatal
  /\ UNCHANGED <<tree, folders, i, outputFileName, pdfFiles, success, processedCount,
                 successCount, outputNames, outcomes, readFailed, mergeError>>
  /\ UNCHANGED <<previousRun, calls>>

Next ==
  \/ MkdirOutput
  \/ MkdirFails
  \/ Scan
  \/ Filter
  \/ Merge
  \/ StatOutput
  \/ StatFails
  \/ Summary
  \/ ListFails

(***************************************************************************)
(* Initial states: the source trees main is run on.                        *)
(***************************************************************************)
Children(P, p) == {q \in P : Len(q) = Len(p) + 1 /\ SubSeq(q, 1, Len(p)) = p}

PrefixClosed(P) == \A q \in P : Len(q) = 1 \/ SubSeq(q, 1, Len(q) - 1) \in P

\* the tree with the directories P below the source directory, the files
\* filesOf[p] in directory p, and the directories of unreadable unreadable
MakeTree(P, unreadable, filesOf) ==
  [p \in P \cup {SourceDir} |->
     [readable |-> p \notin unreadable,
      entries |-> filesOf[p] \cup {DirEntry(q[Len(q)]) : q \in Children(P, p)}]]

PathsOver(names) == {<<n>> : n \in names} \cup {<<m, n>> : m \in names, n \in names}

ShapesOver(names) ==
  {P \in SUBSET PathsOver(names) : PrefixClosed(P) /\ Cardinality(P) <= MaxDirs}

FileA == <<"a", ".", "p", "d", "f">>

FileB == <<"B", ".", "P", "D", "F">>

FileC == <<"c", ".", "P", "d", "f">>

FileD == <<"D", ".", "p", "d", "f">>

FileNames == <<FileA, FileB, FileC, FileD>>

Good(name, n) == SrcFile(name, "file", MIN_FILE_SIZE, TRUE, TRUE, n)

Small(name) == SrcFile(name, "file", MIN_FILE_SIZE - 1, TRUE, TRUE, 1)

Corrupt(name) == SrcFile(name, "file", MIN_FILE_SIZE, TRUE, FALSE, 1)

NoStat(name) == SrcFile(name, "file", MIN_FILE_SIZE, FALSE, TRUE, 1)

\* a name that ends in "pdf" without the dot
NotPdf(name) == SrcFile(SubSeq(name, 1, 1) \o <<"p", "d", "f">>, "file", MIN_FILE_SIZE, TRUE, TRUE, 1)

Symlink(name) == SrcFile(name, "symlink", MIN_FILE_SIZE, TRUE, TRUE, 1)

InitMain ==
  /\ pc = "mkdir"
  /\ folders = <<>>
  /\ i = 0
  /\ outputFileName = <<>>
  /\ pdfFiles = <<>>
  /\ success = FALSE
  /\ processedCount = 0
  /\ successCount = 0
  /\ exitCode = -1
  /\ outputNames = <<>>
  /\ outcomes = <<>>
  /\ readFailed = FALSE
  /\ mergeError = "none"
  /\ summary = <<>>
  /\ previousRun = <<>>
  /\ calls = <<>>

\* Spec: a few directories, each with no file, a stub, one document, or two
\* documents of which one or both are corrupt; the source directory
\* may be unreadable.
MainDirNames == {<<"A">>, <<"b">>}

MainMenu ==
  {{}, {Small(FileA)}, {Good(FileA, 1)},
   {Corrupt(FileA), Good(FileB, 1)}, {Corrupt(FileA), Corrupt(FileB)}}

Init ==
  /\ \E P \in ShapesOver(MainDirNames) :
       \E filesOf \in [P \cup {SourceDir} -> MainMenu] :
         \E unreadable \in {{}, {SourceDir}} :
           tree = MakeTree(P, unreadable, filesOf)
  /\ InitMain

Spec == Init /\ [][Next]_vars

\* SpecFiles: one directory whose entries vary in name, type, size, stat
\* result, import result and page count.
FileVariants(name) ==
  {NotPdf(name), Symlink(name), NoStat(name), Small(name), Corrupt(name)}
    \cup {Good(name, n) : n \in 1..MaxPages}

RECURSIVE FileSetsUpTo(_)
\* the sets of at most k entries, the j-th of them a variant of FileNames[j]
FileSetsUpTo(k) ==
  IF k = 0 THEN {{}}
  ELSE {S \cup T : S \in FileSetsUpTo(k - 1),
                   T \in {{}} \cup {{v} : v \in FileVariants(FileNames[k])}}

FileSets == FileSetsUpTo(MaxFiles)

InitFiles ==
  /\ \E S \in FileSets : tree = MakeTree({}, {}, [p \in {SourceDir} |-> S])
  /\ InitMain

SpecFiles == InitFiles /\ [][Next]_vars

\* SpecScan: trees that vary in shape and in the names of the directories;
\* only the scan is run.
ScanDirNames == {<<"-", "x">>, <<"A">>, <<"d", ".", "p", "d", "f">>}

ScanMenu == {{}, {Good(FileB, 1)}, {Symlink(FileA), NotPdf(FileC)}}

InitScan ==
  /\ \E P \in ShapesOver(ScanDirNames) :
       \E filesOf \in [P \cup {SourceDir} -> ScanMenu] :
         \E unreadable \in {{}} \cup {{<<n>>} : n \in ScanDirNames} :
           /\ unreadable \subseteq P
           /\ tree = MakeTree(P, unreadable, filesOf)
  /\ InitMain

NextScan ==
  \/ MkdirOutput
  \/ MkdirFails
  \/ Scan

SpecScan == InitScan /\ [][NextScan]_vars

(***************************************************************************)
(* Properties.                                                             *)
(***************************************************************************)
\* mergePDFs has returned for the directory of the current iteration and
\* nothing has run since: pdfFiles, outputFileName and success are those of
\* the call
MergeReturned ==
  \/ pc = "stat"
  \/ /\ pc = "loop"
     /\ Len(outcomes) > 0
     /\ outcomes[Len(outcomes)] = "failed"

ArtifactExists == HasEntry(tree, outputDir, outputFileName)

\* C1: when mergePDFs is called with two or more files and every one of
\* them fails to import, it returns false and there is no file at outputPath.
C1_AllImportsFailMeansFailure ==
  (MergeReturned /\ Len(pdfFiles) >= 2 /\ imported(tree, pdfFiles) = <<>>)
    => (~success /\ ~ArtifactExists)

\* C2: after the merge of a directory has finished, a file exists at the
\* directory's output path only if the merge reported success.
C2_ArtifactOnlyOnSuccess ==
  MergeReturned => (ArtifactExists => success)

\* C3: once the output directory exists and the scan has returned, a run
\* that has ended has visited every directory of folders: processedCount and
\* the number of closing lines equal the length of folders.
C3_EveryFolderVisited ==
  (pc = "done" /\ outputDir \in DOMAIN tree)
    => (processedCount = Len(folders) /\ Len(outcomes) = Len(folders))

\* C4: a run whose source directory cannot be read ends with a non-zero
\* exit code.
C4_UnreadableRootIsFatal ==
  (pc = "done" /\ ~tree[SourceDir].readable) => exitCode # 0

\* the entries of the output directory
OutputEntries == IF outputDir \in DOMAIN tree THEN tree[outputDir].entries ELSE {}

RECURSIVE DecValue(_)
\* the number a string of decimal digits denotes
DecValue(digits) ==
  IF digits = <<>> THEN 0
  ELSE 10 * DecValue(SubSeq(digits, 1, Len(digits) - 1)) + (Code(digits[Len(digits)]) - 48)

\* the number in front of the first "-" of an output file name
IndexOfName(name) ==
  LET dash == CHOOSE k \in 1..Len(name) : name[k] = "-" /\ \A j \in 1..(k - 1) : name[j] # "-"
  IN  DecValue(SubSeq(name, 1, dash - 1))

\* C5: the index in the output file name of the k-th directory of folders is
\* k, whatever happened to the directories before it, and every file in the
\* output directory carries the name generated for one of the directories.
C5_IndexIsScanPosition ==
  /\ Len(outputNames) <= Len(folders)
  /\ \A k \in 1..Len(outputNames) :
       /\ \A j \in 1..2 : IsDigit(outputNames[k][j])
       /\ IndexOfName(outputNames[k]) = k
  /\ \A e \in OutputEntries : \E k \in 1..Len(outputNames) : e.name = outputNames[k]

\* C5 witness: the first directory had no eligible file, the second failed
\* to merge, and the third was merged into a file whose index is 3.
C5_Witness ==
  /\ Len(outcomes) >= 3
  /\ outcomes[1] = "empty"
  /\ outcomes[2] = "failed"
  /\ outcomes[3] = "success"
  /\ \E e \in OutputEntries : e.name = outputNames[3] /\ IndexOfName(e.name) = 3

\* the name ends in ".pdf", in any mix of upper and lower case
PdfName(name) ==
  /\ Len(name) >= 4
  /\ name[Len(name) - 3] = "."
  /\ name[Len(name) - 2] \in {"p", "P"}
  /\ name[Len(name) - 1] \in {"d", "D"}
  /\ name[Len(name)] \in {"f", "F"}

\* an eligible file: a regular file with the PDF extension whose size is
\* known and at least 20 KiB
EligibleEntry(e) ==
  /\ e.type = "file"
  /\ PdfName(e.name)
  /\ e.statOK
  /\ e.size >= 20 * 1024

HasEligible(folderPath) == \E e \in tree[Resolve(folderPath)].entries : EligibleEntry(e)

EligibleFolders == {k \in 1..Len(folders) : HasEligible(folders[k])}

ArtifactFor(k) == \E e \in OutputEntries : e.name = outputNames[k]

\* C6 as stated: after a complete run the output directory holds exactly one
\* artifact for each scanned directory with an eligible file, none for the
\* others, and as many artifacts as there are such directories.
C6_OneArtifactPerEligibleFolder ==
  (pc = "done" /\ exitCode = 0)
    => /\ \A k \in 1..Len(folders) : ArtifactFor(k) <=> HasEligible(folders[k])
       /\ Cardinality(OutputEntries) = Cardinality(EligibleFolders)

\* C6 amended: at most one artifact is written per scanned directory (the
\* names of different directories differ) and only for a directory with an
\* eligible file; every directory whose merge reported success has its
\* artifact; the number of artifacts lies between the number of successful
\* merges and the number of directories with an eligible file.
C6_AtMostOneArtifactPerEligibleFolder ==
  /\ \A j \in 1..Len(outputNames) : \A k \in 1..Len(outputNames) :
       j # k => outputNames[j] # outputNames[k]
  /\ \A k \in 1..Len(outputNames) : ArtifactFor(k) => HasEligible(folders[k])
  /\ \A k \in 1..Len(outcomes) : outcomes[k] = "success" => ArtifactFor(k)
  /\ successCount <= Cardinality(OutputEntries)
  /\ Cardinality(OutputEntries) <= Cardinality(EligibleFolders)

\* C6 witness: a complete run over three directories: one merged, one with
\* an eligible file whose merge failed and left nothing, one without any
\* eligible file.
C6_Witness ==
  /\ pc = "done"
  /\ exitCode = 0
  /\ \E k \in 1..Len(folders) : outcomes[k] = "success" /\ ArtifactFor(k)
  /\ \E k \in 1..Len(folders) : outcomes[k] = "failed" /\ HasEligible(folders[k]) /\ ~ArtifactFor(k)
  /\ \E k \in 1..Len(folders) : outcomes[k] = "empty" /\ ~HasEligible(folders[k]) /\ ~ArtifactFor(k)

RECURSIVE RelString(_)
\* the relative path of the directory at p, as a string
RelString(p) ==
  IF p = <<>> THEN <<".">>
  ELSE IF Len(p) = 1 THEN p[1]
  ELSE RelString(SubSeq(p, 1, Len(p) - 1)) \o <<"/">> \o p[Len(p)]

ContainsPdfFile(p) == \E e \in tree[p].entries : e.type = "file" /\ PdfName(e.name)

AllReadable == \A p \in DOMAIN tree : tree[p].readable

FolderSet == {folders[k] : k \in 1..Len(folders)}

\* C7: when every directory is readable, scanFolders returns, each once, the
\* directories that directly contain a regular file whose name ends in
\* ".pdf" (in any case), and no other directory.
C7_ScanReturnsFoldersWithDirectPdf ==
  (pc = "loop" /\ AllReadable)
    => /\ FolderSet = {RelString(p) : p \in {q \in DOMAIN tree : ContainsPdfFile(q)}}
       /\ Len(folders) = Cardinality(FolderSet)

\* C7 witness: a nested directory with a PDF is returned although its parent,
\* which holds only that directory, a link or a file without the extension,
\* is not.
C7_Witness ==
  /\ pc = "loop"
  /\ AllReadable
  /\ \E q \in DOMAIN tree :
       /\ Len(q) = 2
       /\ RelString(q) \in FolderSet
       /\ RelString(SubSeq(q, 1, 1)) \notin FolderSet
       /\ tree[SubSeq(q, 1, 1)].entries # {DirEntry(q[2])}
       /\ RootRel \notin FolderSet

\* C8: the array returned by scanFolders is in ascending order of the path
\* strings, and the root "." is its first element whenever it is in it.
C8_SortedWithRootFirst ==
  pc = "loop"
    => /\ \A x \in 1..Len(folders) : \A y \in 1..Len(folders) :
            x < y => StrLess(folders[x], folders[y])
       /\ (RootRel \in FolderSet => folders[1] = RootRel)

\* the entry of the file system that pdfFiles[k] was made from
SourceOf(k) ==
  EntryAt(tree, SubSeq(pdfFiles[k].path, 1, Len(pdfFiles[k].path) - 1), pdfFiles[k].name)

Survivors == {k \in 1..Len(pdfFiles) : SourceOf(k).loadOK}

PositionOf(name) == CHOOSE k \in 1..Len(pdfFiles) : pdfFiles[k].name = name

InNameOrder ==
  \A x \in 1..Len(pdfFiles) : \A y \in 1..Len(pdfFiles) :
    x < y => localeCompare(pdfFiles[x].name, pdfFiles[y].name) < 0

\* the pages of the file at outputPath are the pages of the files that were
\* imported, each once, file by file in the order of pdfFiles and page by
\* page within a file
OutputIsSurvivorsPages ==
  LET out == EntryAt(tree, outputDir, outputFileName).pages
  IN  /\ {out[x] : x \in 1..Len(out)}
           = UNION {{SourceOf(k).pages[n] : n \in 1..Len(SourceOf(k).pages)} : k \in Survivors}
      /\ \A x \in 1..Len(out) : \A y \in 1..Len(out) :
           x < y => \/ out[x][1] = out[y][1] /\ out[x][2] < out[y][2]
                    \/ out[x][1] # out[y][1] /\ PositionOf(out[x][1]) < PositionOf(out[y][1])

\* C9 as stated: a merge of more than one file of which at least one imports
\* succeeds, and the pages of its output are those of the imported files in
\* the order of the file names.
C9_MergeSucceedsWithSurvivorsPages ==
  (MergeReturned /\ Len(pdfFiles) > 1 /\ Survivors # {})
    => (success /\ ArtifactExists /\ InNameOrder /\ OutputIsSurvivorsPages)

\* C9 amended: such a merge succeeds unless the final save or write throws;
\* when it succeeds the pages of its output are those of the imported files
\* in the order of the file names.
C9_SuccessfulMergeHasSurvivorsPages ==
  (MergeReturned /\ Len(pdfFiles) > 1 /\ Survivors # {})
    => /\ mergeError \in {"none", "save", "write"}
       /\ success <=> mergeError = "none"
       /\ success => (ArtifactExists /\ InNameOrder /\ OutputIsSurvivorsPages)

\* C9 witness: three files were merged, the second failed to import, the
\* first has two pages, and the output has the three pages of the other two.
C9_Witness ==
  /\ MergeReturned
  /\ success
  /\ Len(pdfFiles) = 3
  /\ Survivors = {1, 3}
  /\ Len(SourceOf(1).pages) = 2
  /\ ArtifactExists
  /\ Len(EntryAt(tree, outputDir, outputFileName).pages) = 3

\* C10: when the directory can be listed, getValidPDFs returns, each once and
\* in the order of their names, the regular files named *.pdf (in any case)
\* whose stat succeeds and whose size is at least 20 KiB, with their size and
\* path.
C10_ValidPDFsAreTheEligibleFiles ==
  (Len(outputNames) > 0 /\ ~readFailed)
    => LET dir == Resolve(folders[Len(outputNames)])
           eligible == {e \in tree[dir].entries : EligibleEntry(e)}
       IN  /\ {pdfFiles[k].name : k \in 1..Len(pdfFiles)} = {e.name : e \in eligible}
           /\ Len(pdfFiles) = Cardinality(eligible)
           /\ \A k \in 1..Len(pdfFiles) :
                /\ pdfFiles[k].path = Append(dir, pdfFiles[k].name)
                /\ pdfFiles[k].size = EntryAt(tree, dir, pdfFiles[k].name).size
           /\ InNameOrder

\* C10 witness: the directory holds a PDF of 20479 bytes, a PDF of 20480
\* bytes and a PDF whose stat fails; only the second is returned.
C10_Witness ==
  /\ Len(outputNames) > 0
  /\ ~readFailed
  /\ LET entries == tree[Resolve(folders[Len(outputNames)])].entries
     IN  /\ \E e \in entries : e.type = "file" /\ PdfName(e.name) /\ e.statOK /\ e.size = 20 * 1024 - 1
         /\ \E e \in entries : e.type = "file" /\ PdfName(e.name) /\ ~e.statOK
         /\ \E e \in entries : e.type = "file" /\ PdfName(e.name) /\ e.statOK /\ e.size = 20 * 1024
                                /\ pdfFiles = <<[name |-> e.name, path |-> <<e.name>>, size |-> e.size]>>

(***************************************************************************)
(* generateFileName on its own: SpecName calls it twice, with any two      *)
(* folder paths and two indices of which the second is the larger.         *)
(***************************************************************************)
\* the state of a process that only calls a function: pc tells which
InitCalls(position) ==
  /\ tree = MakeTree({}, {}, [p \in {SourceDir} |-> {}])
  /\ pc = position
  /\ folders = <<>>
  /\ i = 0
  /\ outputFileName = <<>>
  /\ pdfFiles = <<>>
  /\ success = FALSE
  /\ processedCount = 0
  /\ successCount = 0
  /\ exitCode = -1
  /\ outputNames = <<>>
  /\ outcomes = <<>>
  /\ readFailed = FALSE
  /\ mergeError = "none"
  /\ summary = <<>>
  /\ previousRun = <<>>
  /\ calls = <<>>

\* a hash key as the exporting platform appends it
HashKey == [k \in 1..HashLen |-> IF k % 2 = 1 THEN "a" ELSE "7"]

SegAcademy == <<"C", "a", "t", "i", "o", " ", "A", "c", "a", "d", "e", "m", "y", " ">> \o HashKey

SegGuide == <<"G", "u", "i", "d", "e", " ", "&", " ", "F", "A", "Q">>

SegTop == <<"T", "o", "p">>

\* the folders generateFileName is called for, each a sequence of segments
NamePaths ==
  {<<>>, <<SegAcademy>>, <<SegTop, SegAcademy>>, <<SegTop, SegAcademy, SegGuide>>}

\* lines 22-38: one call generateFileName(folderPath, index)
GenerateFileNameCall ==
  /\ pc = "name"
  /\ Len(calls) < 2
  /\ \E segments \in NamePaths : \E index \in 1..MaxIndex :
       /\ IF calls = <<>> THEN TRUE ELSE index > calls[Len(calls)].index
       /\ calls' = Append(calls, [segments |-> segments,
                                  folderPath |-> RelString(segments),
                                  index |-> index,
                                  result |-> generateFileName(RelString(segments), index)])
  /\ UNCHANGED <<tree, pc, folders, i, outputFileName, pdfFiles, success, processedCount,
                 successCount, exitCode, outputNames, outcomes, readFailed, mergeError,
                 summary, previousRun>>

InitName == InitCalls("name")

NextName == GenerateFileNameCall

SpecName == InitName /\ [][NextName]_vars

DigitChar(d) == <<"0", "1", "2", "3", "4", "5", "6", "7", "8", "9">>[d + 1]

\* the index written with two digits below 100 and with three from 100 on
TwoDigits(n) ==
  IF n < 100 THEN <<DigitChar(n \div 10), DigitChar(n % 10)>>
  ELSE <<DigitChar(n \div 100), DigitChar((n \div 10) % 10), DigitChar(n % 10)>>

\* what follows the index and the dash: Root, the sanitized segment, or the
\* last two sanitized segments
ExpectedStem(segments) ==
  LET n == Len(segments)
  IN  IF n = 0 THEN <<"R", "o", "o", "t">>
      ELSE IF n = 1 THEN cleanFolderName(segments[1])
      ELSE cleanFolderName(segments[n - 1]) \o <<"-">> \o cleanFolderName(segments[n])

\* C11: generateFileName returns the index padded to two digits, a dash,
\* Root or the sanitized last one or two segments, and ".pdf"; of two names
\* with indices up to 99 the one with the smaller index is the smaller string.
C11_NameFormatAndOrder ==
  /\ \A k \in 1..Len(calls) :
       calls[k].result = TwoDigits(calls[k].index) \o <<"-">>
                           \o ExpectedStem(calls[k].segments) \o <<".", "p", "d", "f">>
  /\ \A x \in 1..Len(calls) : \A y \in 1..Len(calls) :
       (calls[x].index < calls[y].index /\ calls[y].index <= 99)
         => StrLess(calls[x].result, calls[y].result)

\* C11 witness: index 9 for a path of three segments, then index 10 for the
\* root; the first name uses only the last two segments and sorts first.
C11_Witness ==
  /\ Len(calls) = 2
  /\ calls[1].index = 9
  /\ Len(calls[1].segments) = 3
  /\ calls[1].result = <<"0", "9", "-">> \o SubSeq(SegAcademy, 1, 5) \o <<"_">>
                         \o SubSeq(SegAcademy, 7, 13) \o <<"-", "G", "u", "i", "d", "e", "_", "F", "A", "Q">>
                         \o DotPdf
  /\ calls[2].index = 10
  /\ calls[2].result = <<"1", "0", "-", "R", "o", "o", "t", ".", "p", "d", "f">>
  /\ StrLess(calls[1].result, calls[2].result)

(***************************************************************************)
(* cleanFolderName called on its own, on every segment over a small        *)
(* alphabet: a space, a word character, a removed character and an         *)
(* underscore of the name itself, with or without a hash key after it.     *)
(***************************************************************************)
CleanAlphabet == {" ", "a", "(", "_"}

SegmentsUpTo(n) == UNION {[1..k -> CleanAlphabet] : k \in 1..n}

CleanFolderNameCall ==
  /\ pc = "clean"
  /\ calls = <<>>
  /\ \E seg \in SegmentsUpTo(MaxSegLen) : \E hashed \in BOOLEAN :
       LET folderName == IF hashed THEN seg \o <<" ">> \o HashKey ELSE seg
       IN  calls' = <<[folderName |-> folderName,
                       hashed |-> hashed,
                       result |-> cleanFolderName(folderName)]>>
  /\ UNCHANGED <<tree, pc, folders, i, outputFileName, pdfFiles, success, processedCount,
                 successCount, exitCode, outputNames, outcomes, readFailed, mergeError,
                 summary, previousRun>>

InitClean == InitCalls("clean")

NextClean == CleanFolderNameCall

SpecClean == InitClean /\ [][NextClean]_vars

\* the text left after the hash suffix is stripped and the disallowed
\* characters are removed
KeptText(folderName) == SelectSeq(StripHash(folderName), KeptChar)

\* C12: cleanFolderName trims the whitespace at the two ends of the kept text
\* before it turns whitespace runs into underscores, so the result is the
\* trimmed kept text with every inner whitespace run replaced by one underscore.
C12_TrimBeforeCollapse ==
  \A k \in 1..Len(calls) :
    calls[k].result = CollapseSpaces(trim(KeptText(calls[k].folderName)))

\* the segment "a (": its last kept character is followed by a space and a
\* removed character, and the result ends with an underscore
C12_TrailingUnderscore ==
  /\ calls # <<>>
  /\ calls[1].folderName = <<"a", " ", "(">>
  /\ calls[1].result = <<"a", "_">>

(***************************************************************************)
(* main run twice on the same source directory: the second run starts on   *)
(* the file system the first run left, output directory included.          *)
(***************************************************************************)
\* the process has exited and main is started again in the same directory
Rerun ==
  /\ pc = "done"
  /\ previousRun = <<>>
  /\ previousRun' = <<[folders |-> folders, outputNames |-> outputNames,
                       exitCode |-> exitCode]>>
  /\ pc' = "mkdir"
  /\ folders' = <<>>
  /\ i' = 0
  /\ outputFileName' = <<>>
  /\ pdfFiles' = <<>>
  /\ success' = FALSE
  /\ processedCount' = 0
  /\ successCount' = 0
  /\ exitCode' = -1
  /\ outputNames' = <<>>
  /\ outcomes' = <<>>
  /\ readFailed' = FALSE
  /\ mergeError' = "none"
  /\ summary' = <<>>
  /\ UNCHANGED <<tree, calls>>

RerunDirNames == {<<"A">>, <<"z">>}

RerunShapes == {P \in SUBSET {<<n>> : n \in RerunDirNames} : Cardinality(P) <= MaxDirs}

RerunMenu == {{}, {Good(FileA, 1)}, {Corrupt(FileA), Good(FileB, 1)}}

InitRerun ==
  /\ \E P \in RerunShapes :
       \E filesOf \in [P \cup {SourceDir} -> RerunMenu] :
         tree = MakeTree(P, {}, filesOf)
  /\ InitMain

NextRerun ==
  \/ Next
  \/ Rerun

SpecRerun == InitRerun /\ [][NextRerun]_vars

\* the first run ran to its end and the second run has scanned
SecondRunScanned ==
  /\ previousRun # <<>>
  /\ previousRun[1].exitCode = 0
  /\ pc \in {"loop", "merge", "stat"} \/ (pc = "done" /\ exitCode = 0)

\* C13: in a second run on the same root, after a first run that ran to its
\* end, the scan does not return the output directory, it returns the
\* directories of the first run, and every one of them gets the output file
\* name it got in the first run.
C13_SecondRunSameNames ==
  SecondRunScanned =>
    /\ \A k \in 1..Len(folders) : folders[k] # OUTPUT_DIR
    /\ folders = previousRun[1].folders
    /\ \A k \in 1..Len(outputNames) : \A j \in 1..Len(previousRun[1].outputNames) :
         folders[k] = previousRun[1].folders[j] => outputNames[k] = previousRun[1].outputNames[j]

\* the first run wrote 01-Root.pdf and 02-z.pdf; the second run scans the
\* output directory as a source directory and names the artifact of z 03-z.pdf
C13_IndexShifted ==
  /\ previousRun # <<>>
  /\ pc = "done"
  /\ exitCode = 0
  /\ previousRun[1].folders = <<RootRel, <<"z">>>>
  /\ previousRun[1].outputNames = <<<<"0", "1", "-", "R", "o", "o", "t">> \o DotPdf,
                                    <<"0", "2", "-", "z">> \o DotPdf>>
  /\ folders = <<RootRel, OUTPUT_DIR, <<"z">>>>
  /\ outputNames[3] = <<"0", "3", "-", "z">> \o DotPdf

====
